---------------------------- MODULE Spec2Model ----------------------------
(***************************************************************************)
(* Model of btplotting/clock.py: the inclusive slice get_slice_with_end,   *)
(* ClockGenerator (decoding of the datetime line, range resolution) and    *)
(* ClockHandler (alignment of a line to a clock, DataFrame assembly).      *)
(*                                                                         *)
(* Python lists are modelled as sequences; a Python index i is the         *)
(* sequence position i + 1.  Timestamps are positive integers.             *)
(***************************************************************************)
EXTENDS Integers, Sequences, FiniteSets, TLC

VARIABLES
    pc,           \* position of the running call
    args,         \* arguments of a get_slice_with_end / get_clock call
    ret,          \* value returned by the call
    _clk,         \* ClockGenerator._clk.array: raw float datetimes, NaN allowed
    _tz,          \* ClockGenerator._tz
    self_clk,     \* ClockHandler.clk
    self_start,   \* ClockHandler.start
    self_end,     \* ClockHandler.end
    line,         \* line.array handed to get_list_from_line
    clkalign,     \* clkalign argument of get_list_from_line / get_df_from_series
    fill_gaps,    \* fill_gaps argument
    llist,        \* _get_data_from_list: llist
    clk,          \* _get_data_from_list: clk (the clock to align to)
    data,         \* _get_data_from_list: data
    c_idx,        \* _get_data_from_list: c_idx
    k,            \* number of values of clk the outer for loop has taken
    c,            \* _get_data_from_list: c
    sc_next,      \* the index range(c_idx, len(llist)) yields next
    sc_idx,       \* _get_data_from_list: sc_idx
    sc,           \* _get_data_from_list: sc
    v,            \* _get_data_from_list: v
    sc_prev,      \* _get_data_from_list: sc_prev
    idx_prev,     \* _get_data_from_list: idx_prev
    series,       \* get_df_from_series: series (aliases and their lines)
    skip,         \* get_df_from_series: skip
    name_prefix,  \* get_df_from_series: name_prefix
    df,           \* get_df_from_series: df, the columns in insertion order
    li            \* number of line aliases the loop of get_df_from_series took

vars == <<pc, args, ret, _clk, _tz, self_clk, self_start, self_end, line,
          clkalign, fill_gaps, llist, clk, data, c_idx, k, c, sc_next, sc_idx,
          sc, v, sc_prev, idx_prev, series, skip, name_prefix, df, li>>

genVars == <<_clk, _tz>>
handlerVars == <<self_clk, self_start, self_end>>
callVars == <<line, clkalign, fill_gaps>>
scanVars == <<llist, clk, data, c_idx, k, c, sc_next, sc_idx, sc, v, sc_prev,
              idx_prev>>
dfVars == <<series, skip, name_prefix, df, li>>

---------------------------------------------------------------------------
(* Bounds of the model *)

\* longest handler clock, line and reference clock that are enumerated
MaxLen == 2
\* largest timestamp that is enumerated
MaxT == 3
\* longest raw datetime line of a ClockGenerator that is enumerated
MaxRaw == 3

---------------------------------------------------------------------------
(* Values *)

\* float('nan'): the missing marker; the only value with x != x
NaN == -1
\* Python None for sc_prev, idx_prev and sc (never a timestamp or an index)
None == -2

\* x == x of Python floats: false exactly for nan
IsNumber(x) == x # NaN

\* the number a line holds at Python index i when the sample is not missing
Sample(i) == 10 * (i + 1)
Timestamps == 1 .. MaxT

SeqsUpTo(S, n) == UNION {[1 .. m -> S] : m \in 0 .. n}

NonDecreasing(s) == \A i \in 1 .. Len(s) - 1 : s[i] <= s[i + 1]

\* decoded clocks: ordered sequences of timestamps
Clocks == {s \in SeqsUpTo(Timestamps, MaxLen) : NonDecreasing(s)}
\* line arrays: every sample is missing or a number
Lines == {s \in SeqsUpTo({NaN} \cup {Sample(i) : i \in 0 .. MaxLen}, MaxLen) :
             \A i \in 1 .. Len(s) : s[i] \in {NaN, Sample(i - 1)}}

Last(s) == s[Len(s)]

Min(a, b) == IF a < b THEN a ELSE b
Max(a, b) == IF a > b THEN a ELSE b

---------------------------------------------------------------------------
(* Python list primitives *)

\* data[i] raises IndexError
IndexError(d, i) == i >= Len(d) \/ i < 0 - Len(d)

\* data[i], negative indices counted from the end
Item(d, i) == IF i < 0 THEN d[Len(d) + i + 1] ELSE d[i + 1]

\* a slice bound clamped as list slicing does
SliceBound(d, i) == IF i < 0 THEN Max(0, Len(d) + i) ELSE Min(i, Len(d))

\* list(data)[start:end]
Slice(d, start, end) == SubSeq(d, SliceBound(d, start) + 1, SliceBound(d, end))

\* the outcome of a call: a returned value or a raised exception
Returns(x) == [raised |-> FALSE, value |-> x]
Raises == [raised |-> TRUE, value |-> <<>>]

\* list(data)[start:end] + [data[end]] inside try/except IndexError
SliceMutNoExcept(d, start, end) ==
    IF IndexError(d, end) THEN Raises
    ELSE Returns(Slice(d, start, end) \o <<Item(d, end)>>)

TrySlice(d, start, end) ==
    IF IndexError(d, end) THEN Returns(<<>>)
    ELSE Returns(Slice(d, start, end) \o <<Item(d, end)>>)

get_slice_with_end(d, start, end) ==
    IF end >= start THEN TrySlice(d, start, end) ELSE Returns(<<>>)

---------------------------------------------------------------------------
(* ClockHandler._get_data_from_list and get_list_from_line *)

\* the clkalign argument: None, or a clock
NoClock == [given |-> FALSE, arr |-> <<>>]
Given(s) == [given |-> TRUE, arr |-> s]

\* the inputs of the worked example: a source clock with a gap at 4
ScenarioClk == <<1, 2, 3, 5, 6>>
ScenarioLine == <<10, 20, 30, 50, 60>>
ScenarioAlign == <<1, 2, 3, 4, 5, 6>>

\* the index into self.clk used for the source position sc_idx
ClkIndexMutOffset(i) == self_start + i

ClkIndex(i) == i

\* sc = self.clk[sc_idx]
ClkAt(i) == Item(self_clk, ClkIndex(i))

\* sc == c: if v != v or llist[sc_idx] == llist[sc_idx]: v = llist[sc_idx]
EqualValueMutOverwrite(cand, x) == x

EqualValue(cand, x) == IF ~IsNumber(cand) \/ IsNumber(x) THEN x ELSE cand

\* sc == c: c_idx = sc_idx + 1
EqualCursorMutStay(i) == i

EqualCursor(i) == i + 1

\* sc > c: if fill_gaps or (sc_prev and sc_prev < c)
FillsMutAlways(fg, scp, cc) == TRUE

FillsMutNever(fg, scp, cc) == scp # None /\ scp < cc

Fills(fg, scp, cc) == fg \/ (scp # None /\ scp < cc)

\* sc > c, no sc_prev: c_idx = sc_idx
ResumeAtMutBack(i) == i - 1

ResumeAt(i) == i

\* data.append(v)
Emit(d, x) == Append(d, x)

\* get_list_from_line up to the first iteration of _get_data_from_list
GetListFromLine ==
    /\ pc = "call"
    /\ llist' = get_slice_with_end(line, self_start, self_end).value
    /\ clk' = IF clkalign.given THEN clkalign.arr ELSE self_clk
    /\ data' = <<>>
    /\ c_idx' = 0
    /\ sc' = None
    /\ k' = 0
    /\ pc' = "for"
    /\ UNCHANGED <<args, ret, genVars, handlerVars, callVars, c, sc_next,
                   sc_idx, v, sc_prev, idx_prev, dfVars>>

\* for c in clk: the next clock value, v, sc_prev and idx_prev reset
ForNext ==
    /\ pc = "for"
    /\ k < Len(clk)
    /\ c' = clk[k + 1]
    /\ k' = k + 1
    /\ v' = NaN
    /\ sc_prev' = None
    /\ idx_prev' = None
    /\ sc_next' = c_idx
    /\ pc' = "scan"
    /\ UNCHANGED <<args, ret, genVars, handlerVars, callVars, llist, clk, data,
                   c_idx, sc_idx, sc, dfVars>>

\* self.clk[sc_idx] with sc_idx past the end of self.clk
ScanIndexError ==
    /\ pc = "scan"
    /\ sc_next < Len(llist)
    /\ IndexError(self_clk, ClkIndex(sc_next))
    /\ sc_idx' = sc_next
    /\ pc' = "raised"
    /\ UNCHANGED <<args, ret, genVars, handlerVars, callVars, llist, clk, data,
                   c_idx, k, c, sc_next, sc, v, sc_prev, idx_prev, dfVars>>

\* sc < c: the value is a candidate; remembered when it is a number
ScanSmaller ==
    /\ pc = "scan"
    /\ sc_next < Len(llist)
    /\ ~IndexError(self_clk, ClkIndex(sc_next))
    /\ ClkAt(sc_next) < c
    /\ sc_idx' = sc_next
    /\ sc_next' = sc_next + 1
    /\ sc' = ClkAt(sc_next)
    /\ v' = IF IsNumber(llist[sc_next + 1]) THEN llist[sc_next + 1] ELSE v
    /\ IF IsNumber(llist[sc_next + 1])
       THEN sc_prev' = ClkAt(sc_next) /\ idx_prev' = sc_next
       ELSE UNCHANGED <<sc_prev, idx_prev>>
    /\ UNCHANGED <<pc, args, ret, genVars, handlerVars, callVars, llist, clk,
                   data, c_idx, k, c, dfVars>>

\* sc == c: the value is taken, the cursor moves past it, the scan ends
ScanEqual ==
    /\ pc = "scan"
    /\ sc_next < Len(llist)
    /\ ~IndexError(self_clk, ClkIndex(sc_next))
    /\ ClkAt(sc_next) = c
    /\ sc_idx' = sc_next
    /\ sc' = ClkAt(sc_next)
    /\ v' = EqualValue(v, llist[sc_next + 1])
    /\ c_idx' = EqualCursor(sc_next)
    /\ data' = Emit(data, v')
    /\ pc' = "for"
    /\ UNCHANGED <<args, ret, genVars, handlerVars, callVars, llist, clk, k, c,
                   sc_next, sc_prev, idx_prev, dfVars>>

\* sc > c: filled from sc_prev or from this position, or left missing
ScanBigger ==
    /\ pc = "scan"
    /\ sc_next < Len(llist)
    /\ ~IndexError(self_clk, ClkIndex(sc_next))
    /\ ClkAt(sc_next) > c
    /\ sc_idx' = sc_next
    /\ sc' = ClkAt(sc_next)
    /\ IF Fills(fill_gaps, sc_prev, c)
       THEN IF sc_prev # None
            THEN v' = llist[idx_prev + 1] /\ c_idx' = idx_prev + 1
            ELSE v' = llist[sc_next + 1] /\ c_idx' = ResumeAt(sc_next)
       ELSE UNCHANGED <<v, c_idx>>
    /\ data' = Emit(data, v')
    /\ pc' = "for"
    /\ UNCHANGED <<args, ret, genVars, handlerVars, callVars, llist, clk, k, c,
                   sc_next, sc_prev, idx_prev, dfVars>>

\* range(c_idx, len(llist)) is exhausted: the candidate is the value
ScanExhausted ==
    /\ pc = "scan"
    /\ sc_next >= Len(llist)
    /\ data' = Emit(data, v)
    /\ pc' = "for"
    /\ UNCHANGED <<args, ret, genVars, handlerVars, callVars, llist, clk, c_idx,
                   k, c, sc_next, sc_idx, sc, v, sc_prev, idx_prev, dfVars>>

\* return data, to the caller of get_list_from_line
ReturnData ==
    /\ pc = "for"
    /\ k = Len(clk)
    /\ li = None
    /\ ret' = data
    /\ pc' = "done"
    /\ UNCHANGED <<args, genVars, handlerVars, callVars, scanVars, dfVars>>

Scan == ScanIndexError \/ ScanSmaller \/ ScanEqual \/ ScanBigger \/ ScanExhausted

\* the state in which nothing of a component is in use
NoGenerator == _clk = <<>> /\ _tz = 0
NoArgs == args = <<>> /\ ret = <<>>
NoScan ==
    /\ llist = <<>> /\ clk = <<>> /\ data = <<>> /\ c_idx = 0 /\ k = 0
    /\ c = None /\ sc_next = 0 /\ sc_idx = None /\ sc = None /\ v = NaN /\ sc_prev = None
    /\ idx_prev = None
NoSeries ==
    /\ series = <<>> /\ skip = {} /\ name_prefix = "" /\ df = <<>> /\ li = None

\* a handler built from any clock and range, or the one of the worked example
InitHandler ==
    \/ /\ self_clk \in Clocks
       /\ self_start \in 0 .. MaxLen - 1
       /\ self_end \in -1 .. MaxLen
       /\ line \in Lines
       /\ clkalign \in {NoClock} \cup {Given(s) : s \in Clocks}
    \/ /\ self_clk = ScenarioClk
       /\ self_start = 0
       /\ self_end = 4
       /\ line = ScenarioLine
       /\ clkalign = Given(ScenarioAlign)

Init ==
    /\ pc = "call"
    /\ InitHandler
    /\ fill_gaps \in BOOLEAN
    /\ NoGenerator /\ NoArgs /\ NoScan /\ NoSeries

Next == GetListFromLine \/ ForNext \/ Scan \/ ReturnData

Spec == Init /\ [][Next]_vars

---------------------------------------------------------------------------
(* get_slice_with_end called on its own *)

\* start and end indices handed to the slice, negative and past the end
SliceIndices == (0 - MaxLen - 1) .. (MaxLen + 1)

CallSlice ==
    /\ pc = "call_slice"
    /\ ret' = get_slice_with_end(args.data, args.start, args.end)
    /\ pc' = IF ret'.raised THEN "slice_raised" ELSE "sliced"
    /\ UNCHANGED <<args, genVars, handlerVars, callVars, scanVars, dfVars>>

NoHandler ==
    /\ self_clk = <<>> /\ self_start = 0 /\ self_end = -1
    /\ line = <<>> /\ clkalign = NoClock /\ fill_gaps = FALSE

InitSlice ==
    /\ pc = "call_slice"
    /\ args \in [data : Lines, start : SliceIndices, end : SliceIndices]
    /\ ret = <<>>
    /\ NoGenerator /\ NoHandler /\ NoScan /\ NoSeries

NextSlice == CallSlice

SpecSlice == InitSlice /\ [][NextSlice]_vars

---------------------------------------------------------------------------
(* ClockGenerator *)

\* the time zones of the model, as the shift they give the decoded datetime
TimeZones == {0, 1}

\* raw datetime lines: floats in time order, with unfilled (nan) rows
RawClocks ==
    {s \in SeqsUpTo({NaN} \cup Timestamps, MaxRaw) :
        NonDecreasing(SelectSeq(s, IsNumber))}

\* bt.num2date(x, tz): the datetime of the float x in the time zone tz
num2date(x, tz) == x + tz

RECURSIVE MapNum2Date(_, _)
MapNum2Date(s, tz) ==
    IF s = <<>> THEN <<>>
    ELSE <<num2date(Head(s), tz)>> \o MapNum2Date(Tail(s), tz)

\* [bt.num2date(x, self._tz) for x in self._clk.array if x == x]
_get_clock_array == MapNum2Date(SelectSeq(_clk, IsNumber), _tz)

\* bisect.bisect_left(a, x), the binary search of the standard library
RECURSIVE BisectLeft(_, _, _, _)
BisectLeft(a, x, lo, hi) ==
    IF lo < hi
    THEN LET mid == (lo + hi) \div 2
         IN  IF a[mid + 1] < x THEN BisectLeft(a, x, mid + 1, hi)
             ELSE BisectLeft(a, x, lo, mid)
    ELSE lo

bisect_left(a, x) == BisectLeft(a, x, 0, Len(a))

\* bisect.bisect_right(a, x)
RECURSIVE BisectRight(_, _, _, _)
BisectRight(a, x, lo, hi) ==
    IF lo < hi
    THEN LET mid == (lo + hi) \div 2
         IN  IF x < a[mid + 1] THEN BisectRight(a, x, lo, mid)
             ELSE BisectRight(a, x, mid + 1, hi)
    ELSE lo

bisect_right(a, x) == BisectRight(a, x, 0, Len(a))

\* a start or end argument: None, an int index, or a datetime
NoArg == [type |-> "None", val |-> None]
IntArg(i) == [type |-> "int", val |-> i]
DatetimeArg(t) == [type |-> "datetime", val |-> t]

\* start of _get_clock_range before back is looked at
RangeStart(arr, start) ==
    IF start.type = "None" THEN 0
    ELSE IF start.type = "datetime" THEN bisect_left(arr, start.val)
    ELSE start.val

\* end = bisect.bisect_right(arr, end) - 1
EndOfDatetimeMutLeft(arr, t) == bisect_left(arr, t) - 1

EndOfDatetime(arr, t) == bisect_right(arr, t) - 1

RangeEnd(arr, end) ==
    IF end.type = "None" THEN Len(arr) - 1
    ELSE IF end.type = "datetime" THEN EndOfDatetime(arr, end.val)
    ELSE end.val

\* if back: (neither None nor 0)
Truthy(back) == back # None /\ back # 0

\* ClockGenerator._get_clock_range: <<start, end>>
_get_clock_range(arr, start, end, back) ==
    LET e == RangeEnd(arr, end)
        b == RangeStart(arr, start)
    IN  <<IF Truthy(back) THEN Max(0, e - back + 1) ELSE b, e>>

\* ClockGenerator.get_clock: arr, start, end
get_clock ==
    /\ pc = "call_clock"
    /\ LET arr == _get_clock_array
           r == _get_clock_range(arr, args.start, args.end, args.back)
       IN  ret' = [arr |-> get_slice_with_end(arr, r[1], r[2]).value,
                   start |-> r[1], end |-> r[2]]
    /\ pc' = "clock"
    /\ UNCHANGED <<args, genVars, handlerVars, callVars, scanVars, dfVars>>

RangeArgs ==
    {NoArg} \cup {IntArg(i) : i \in -1 .. MaxRaw}
            \cup {DatetimeArg(t) : t \in 0 .. MaxT + 2}

InitClock ==
    /\ pc = "call_clock"
    /\ _clk \in RawClocks
    /\ _tz \in TimeZones
    /\ args \in [start : RangeArgs, end : RangeArgs, back : {None} \cup 0 .. MaxRaw]
    /\ ret = <<>>
    /\ NoHandler /\ NoScan /\ NoSeries

NextClock == get_clock

SpecClock == InitClock /\ [][NextClock]_vars

---------------------------------------------------------------------------
(* ClockHandler.get_df_from_series *)

Names == {"open", "high", "low", "close"}

\* series.getlinealiases(): the aliases of a series, in its order
AliasOrders ==
    {a \in SeqsUpTo(Names, Cardinality(Names)) :
        \A i, j \in 1 .. Len(a) : i # j => a[i] # a[j]}

\* getattr(series, linealias).array of the series of the model
SeriesLines ==
    [n \in Names |->
        CASE n = "open" -> <<Sample(0), Sample(1)>>
          [] n = "high" -> <<NaN, Sample(1)>>
          [] n = "low" -> <<Sample(0), NaN>>
          [] OTHER -> <<NaN, NaN>>]

\* if linealias in skip
SkippedMutPrefixed(alias) == (name_prefix \o alias) \in skip

Skipped(alias) == alias \in skip

\* df[name] = values: a new column goes last, an existing one is replaced
SetColumn(frame, name, values) ==
    IF \E i \in 1 .. Len(frame) : frame[i].name = name
    THEN [i \in 1 .. Len(frame) |->
             IF frame[i].name = name THEN [name |-> name, values |-> values]
             ELSE frame[i]]
    ELSE Append(frame, [name |-> name, values |-> values])

\* for linealias in series.getlinealiases(): a skipped alias
DfSkip ==
    /\ pc = "df_for"
    /\ li < Len(series.aliases)
    /\ Skipped(series.aliases[li + 1])
    /\ li' = li + 1
    /\ UNCHANGED <<pc, args, ret, genVars, handlerVars, callVars, scanVars,
                   series, skip, name_prefix, df>>

\* line = getattr(series, linealias), handed to get_list_from_line
DfLine ==
    /\ pc = "df_for"
    /\ li < Len(series.aliases)
    /\ ~Skipped(series.aliases[li + 1])
    /\ li' = li + 1
    /\ line' = series.lines[series.aliases[li + 1]]
    /\ pc' = "call"
    /\ UNCHANGED <<args, ret, genVars, handlerVars, clkalign, fill_gaps,
                   scanVars, series, skip, name_prefix, df>>

\* df[name_prefix + linealias] = the data get_list_from_line returned
DfColumn ==
    /\ pc = "for"
    /\ k = Len(clk)
    /\ li # None
    /\ df' = SetColumn(df, name_prefix \o series.aliases[li], data)
    /\ pc' = "df_for"
    /\ UNCHANGED <<args, ret, genVars, handlerVars, callVars, scanVars, series,
                   skip, name_prefix, li>>

\* return df
DfReturn ==
    /\ pc = "df_for"
    /\ li = Len(series.aliases)
    /\ ret' = df
    /\ pc' = "df_done"
    /\ UNCHANGED <<args, genVars, handlerVars, callVars, scanVars, dfVars>>

InitDf ==
    /\ pc = "df_for"
    /\ series \in [aliases : AliasOrders, lines : {SeriesLines}]
    /\ skip \in SUBSET Names
    /\ name_prefix \in {"", "d_"}
    /\ df = <<>>
    /\ li = 0
    /\ self_clk \in {<<1, 3>>, <<1>>}
    /\ self_start = 0
    /\ self_end = 1
    /\ line = <<>>
    /\ clkalign \in {NoClock, Given(<<2, 3, 4>>)}
    /\ fill_gaps \in BOOLEAN
    /\ NoGenerator /\ NoArgs /\ NoScan

NextDf ==
    DfSkip \/ DfLine \/ GetListFromLine \/ ForNext \/ Scan \/ DfColumn \/ DfReturn

SpecDf == InitDf /\ [][NextDf]_vars

---------------------------------------------------------------------------
(* Properties of get_list_from_line / _get_data_from_list, under Spec *)

\* the call of the worked example
Scenario ==
    /\ self_clk = ScenarioClk /\ line = ScenarioLine
    /\ self_start = 0 /\ self_end = 4
    /\ clkalign = Given(ScenarioAlign)

\* the scan for the current clock value ended in the branch sc > c
EndedBigger == pc = "for" /\ k > 0 /\ Len(data) = k /\ sc # None /\ sc > c

\* the scan for the current clock value ended in the branch sc == c
EndedEqual ==
    pc = "for" /\ k > 0 /\ Len(data) = k /\ sc = c /\ c_idx = sc_idx + 1

\* C1 as stated: with fill_gaps=False the worked example gives
\* [10,20,30,30,50,60]: instant 4 receives the last known value 30.
C1_LastKnownCarried ==
    (pc = "done" /\ Scenario /\ ~fill_gaps) => ret = <<10, 20, 30, 30, 50, 60>>

\* C1 amended: with fill_gaps=False a clock instant overshot by the next
\* source instant receives the value of the most recent earlier non-missing
\* source sample scanned for it (one no earlier instant consumed) when there
\* is one and the missing marker otherwise; the worked example gives
\* [10,20,30,NaN,50,60], because the sample at 3 was consumed by instant 3.
C1_GapLeftMissing ==
    /\ (pc = "done" /\ Scenario /\ ~fill_gaps)
           => ret = <<10, 20, 30, NaN, 50, 60>>
    /\ (EndedBigger /\ ~fill_gaps)
           => /\ sc_prev = None => Last(data) = NaN
              /\ sc_prev # None =>
                     /\ Last(data) = llist[idx_prev + 1]
                     /\ IsNumber(Last(data))
                     /\ self_clk[idx_prev + 1] < c

C1_Witness ==
    /\ pc = "done" /\ Scenario /\ ~fill_gaps
    /\ ret[4] = NaN /\ ret[3] = 30 /\ ret[5] = 50

\* C2: with fill_gaps=True a clock instant overshot by the next source instant,
\* with no earlier unconsumed sample, takes that next source value, and the
\* cursor stays on that source position so that its own instant still matches
\* it; the worked example gives [10,20,30,50,50,60].
C2_GapFilledWithNext ==
    /\ (pc = "done" /\ Scenario /\ fill_gaps)
           => ret = <<10, 20, 30, 50, 50, 60>>
    /\ (EndedBigger /\ fill_gaps /\ sc_prev = None)
           => Last(data) = llist[sc_idx + 1] /\ c_idx = sc_idx

C2_Witness ==
    /\ pc = "done" /\ Scenario /\ fill_gaps
    /\ ret[4] = 50 /\ ret[5] = 50

\* C3 as stated: the call completes for every line, handler clock, range,
\* clock to align to and fill_gaps, and returns one value per clock position.
C3_OneValuePerInstant ==
    /\ pc # "raised"
    /\ pc = "done" => Len(ret) = Len(clk)

\* C4: aligning a line to a clock identical to the handler's own clock, one
\* source instant per value, returns the values unchanged, for either
\* fill_gaps.
C4_Idempotent ==
    (pc = "done" /\ clk = self_clk /\ Len(llist) = Len(self_clk)) => ret = llist

C4_Witness ==
    /\ pc = "done" /\ clk = self_clk /\ Len(llist) = Len(self_clk)
    /\ Len(llist) = MaxLen /\ self_clk[1] = self_clk[2]
    /\ llist[1] # NaN /\ llist[2] = NaN
    /\ ret = llist

\* C8: the cursor c_idx never decreases during a call.
C8_CursorMonotonic == [][c_idx' >= c_idx]_vars

\* the cursor was moved by the branch sc > c, to just after a remembered sample
C8_Witness ==
    /\ EndedBigger /\ sc_prev # None /\ c_idx = idx_prev + 1
    /\ c_idx > 0 /\ ~fill_gaps

\* C9: within the scan for one clock instant a candidate that is a number is
\* a number until it is emitted, and a missing sample at the exactly matching
\* source position leaves the candidate as it is.
C9_CandidateNotPoisoned ==
    [][(pc = "scan" /\ IsNumber(v)) =>
          /\ pc' = "scan" => IsNumber(v')
          /\ pc' = "for" => IsNumber(Last(data')) /\ Len(data') = Len(data) + 1
          /\ (pc' = "for" /\ sc_next < Len(llist) /\ sc' = c
                  /\ ~IsNumber(llist[sc_next + 1]))
                 => Last(data') = v]_vars

\* a missing sample matched exactly while the candidate was a number
C9_Witness ==
    /\ EndedEqual /\ ~IsNumber(llist[sc_idx + 1])
    /\ IsNumber(Last(data)) /\ Last(data) = llist[idx_prev + 1]

\* C10 as stated: with the full clock in the handler, the value
\* line[start + i] is compared using the instant clock[start + i].
C10_ComparesObservedInstant ==
    (pc \in {"scan", "for", "done"} /\ sc # None /\ Len(self_clk) = Len(line))
        => /\ llist[sc_idx + 1] = line[self_start + sc_idx + 1]
           /\ sc = self_clk[self_start + sc_idx + 1]

\* C10 amended: the value line[start + i] is compared using the handler clock
\* at the segment position, clk[i], without the offset start; that is the
\* instant of the value only when start is 0 or the handler holds the clock
\* cut to the same range.
C10_ComparesSegmentPosition ==
    (pc \in {"scan", "for", "done"} /\ sc # None)
        => /\ llist[sc_idx + 1] = line[self_start + sc_idx + 1]
           /\ sc = self_clk[sc_idx + 1]

\* a value of a range starting after position 0 has been compared
C10_Witness ==
    /\ pc \in {"scan", "for", "done"} /\ sc # None /\ Len(self_clk) = Len(line)
    /\ self_start > 0
    /\ sc # self_clk[self_start + sc_idx + 1]

---------------------------------------------------------------------------
(* Properties of get_slice_with_end, under SpecSlice *)

\* C5: get_slice_with_end never raises; it returns the empty list when
\* end < start, when data[end] is out of bounds and for empty data, and
\* data[start:end] + [data[end]] otherwise, which for
\* 0 <= start <= end < len(data) are the end - start + 1 items from start to end.
C5_InclusiveSlice ==
    /\ pc # "slice_raised"
    /\ pc = "sliced" =>
         LET d == args.data
             b == args.start
             e == args.end
         IN  /\ ~ret.raised
             /\ e < b => ret.value = <<>>
             /\ (e >= Len(d) \/ e < 0 - Len(d)) => ret.value = <<>>
             /\ d = <<>> => ret.value = <<>>
             /\ (e >= b /\ e < Len(d) /\ e >= 0 - Len(d)) =>
                    ret.value = Slice(d, b, e) \o <<Item(d, e)>>
             /\ (0 <= b /\ b <= e /\ e < Len(d)) =>
                    /\ Len(ret.value) = e - b + 1
                    /\ \A i \in 1 .. e - b + 1 : ret.value[i] = d[b + i]

\* a slice of more than one item was returned
C5_Witness ==
    /\ pc = "sliced"
    /\ args.start = 0 /\ args.end = MaxLen - 1 /\ Len(args.data) = MaxLen
    /\ ret.value = args.data

---------------------------------------------------------------------------
(* Properties of ClockGenerator, under SpecClock *)

\* the positions (Python indices) of arr
Positions(arr) == 0 .. Len(arr) - 1

SetMin(S) == CHOOSE x \in S : \A y \in S : x <= y
SetMax(S) == CHOOSE x \in S : \A y \in S : x >= y

---------------------------------------------------------------------------
(* Properties of get_df_from_series, under SpecDf *)

RECURSIVE Prefixed(_, _)
Prefixed(prefix, aliases) ==
    IF aliases = <<>> THEN <<>>
    ELSE <<prefix \o Head(aliases)>> \o Prefixed(prefix, Tail(aliases))

ColumnNames(frame) == [i \in 1 .. Len(frame) |-> frame[i].name]

\* C7: the DataFrame get_df_from_series returns has one column for every
\* alias of the series that is not in skip, named name_prefix + alias, in the
\* order of the aliases, and none for an alias in skip; skipping close of
\* open, high, low, close gives three columns, none of them for close.
C7_ColumnsOfUnskipped ==
    pc = "df_done" =>
        /\ ColumnNames(ret) =
               Prefixed(name_prefix,
                        SelectSeq(series.aliases, LAMBDA a : a \notin skip))
        /\ (series.aliases = <<"open", "high", "low", "close">>
                /\ skip = {"close"}) =>
               /\ Len(ret) = 3
               /\ \A i \in 1 .. 3 : ret[i].name # name_prefix \o "close"

C7_Witness ==
    /\ pc = "df_done"
    /\ series.aliases = <<"open", "high", "low", "close">>
    /\ skip = {"close"}
    /\ name_prefix = "d_"
    /\ ColumnNames(ret) = <<"d_open", "d_high", "d_low">>

=============================================================================
